---- MODULE Spec2Model ----
(***************************************************************************)
(* Financial_Matrix: two tkinter forms (Financial_Matrix.py, the six-field *)
(* form, and Hover_Template_1.py, the seven-field form with an inflation   *)
(* rate) whose "Generate Graph" button parses the entry texts, validates   *)
(* them, evaluates the compound-interest formula over a (rate, year) grid  *)
(* and hands the grid to a 3D surface, or reports an error dialog.         *)
(*                                                                         *)
(* Entry texts are sequences of one-character strings.  Python floats are  *)
(* modelled as exact rationals over arbitrary-size naturals, extended with *)
(* nan, inf and -inf; the places where binary rounding changes a result    *)
(* the program branches on (int(rate * 100)) are modelled explicitly.      *)
(***************************************************************************)
EXTENDS Integers, Sequences, FiniteSets, TLC

(***************************************************************************)
(* Natural numbers of any size: little-endian sequences of limbs below     *)
(* Base, without leading zero limbs (zero is the empty sequence).  The     *)
(* operations are written without recursion over the limbs: carries and    *)
(* borrows are resolved by look-ahead.                                     *)
(***************************************************************************)
Base == 100 * 100

Max(S) == CHOOSE m \in S : \A x \in S : x <= m

Min(S) == CHOOSE m \in S : \A x \in S : m <= x

\* A function on 1..n as a sequence value.
AsSeq(f) == f \o <<>>

Limb(a, k) == IF k \in 1..Len(a) THEN a[k] ELSE 0

\* Drop the leading zero limbs.
Canon(v) ==
    LET nz == {k \in 1..Len(v) : v[k] # 0}
    IN  IF nz = {} THEN <<>> ELSE SubSeq(v, 1, Max(nz))

\* One carry pass over coefficients of any size: each keeps its low limb and
\* receives the overflow of the one below.
CarryPass(v) ==
    AsSeq([k \in 1..(Len(v) + 1) |-> (Limb(v, k) % Base) + (Limb(v, k - 1) \div Base)])

\* Coefficients below 2 * Base: position k receives a carry when a lower position
\* overflows and every position between is full.
CarryLookahead(v) ==
    AsSeq([k \in 1..(Len(v) + 1) |->
        LET cin == \E j \in 1..(k - 1) :
                       /\ v[j] >= Base
                       /\ \A i \in (j + 1)..(k - 1) : v[i] >= Base - 1
        IN  (Limb(v, k) + (IF cin THEN 1 ELSE 0)) % Base])

\* The natural with coefficients v[k] (each a non-negative integer) of Base^(k-1).
Carry(v) == Canon(CarryLookahead(CarryPass(CarryPass(v))))

NatOfInt(n) == Carry(<<n>>)

NatAdd(a, b) ==
    Canon(CarryLookahead(
        AsSeq([k \in 1..Max({Len(a), Len(b)}) |-> Limb(a, k) + Limb(b, k)])))

\* a - b for a >= b: position k lends when a lower position is short and every
\* position between has nothing to spare.
NatSubDigits(d) ==
    AsSeq([k \in 1..Len(d) |->
        LET bin == \E j \in 1..(k - 1) :
                       /\ d[j] < 0
                       /\ \A i \in (j + 1)..(k - 1) : d[i] <= 0
        IN  (d[k] - (IF bin THEN 1 ELSE 0) + Base) % Base])

NatSub(a, b) ==
    Canon(NatSubDigits(AsSeq([k \in 1..Len(a) |-> a[k] - Limb(b, k)])))

\* a * d + c for integers 0 <= d, c < Base.
NatMulSmall(a, d, c) ==
    Carry(AsSeq([k \in 1..Max({Len(a), 1}) |->
                    Limb(a, k) * d + (IF k = 1 THEN c ELSE 0)]))

RECURSIVE SumSeq(_)
SumSeq(s) ==
    IF Len(s) = 0 THEN 0
    ELSE IF Len(s) = 1 THEN s[1]
    ELSE LET h == Len(s) \div 2
         IN  SumSeq(SubSeq(s, 1, h)) + SumSeq(SubSeq(s, h + 1, Len(s)))

\* The product of a and b, a being the shorter: coefficient k is the sum of the
\* a[i] * b[k + 1 - i].
NatMulShort(a, b) ==
    IF a = <<>> THEN <<>>
    ELSE Carry(AsSeq([k \in 1..(Len(a) + Len(b) - 1) |->
                  SumSeq(AsSeq([i \in 1..Len(a) |-> a[i] * Limb(b, k + 1 - i)]))]))

NatMul(a, b) == IF Len(a) <= Len(b) THEN NatMulShort(a, b) ELSE NatMulShort(b, a)

\* -1, 0 or 1 as a < b, a = b, a > b.
NatCmp(a, b) ==
    IF Len(a) < Len(b) THEN -1
    ELSE IF Len(a) > Len(b) THEN 1
    ELSE LET diff == {k \in 1..Len(a) : a[k] # b[k]}
         IN  IF diff = {} THEN 0
             ELSE IF a[Max(diff)] < b[Max(diff)] THEN -1 ELSE 1

\* The value of a natural below Base^2, as an integer.
IntOfNat(a) == Limb(a, 1) + Base * Limb(a, 2)

\* The largest quotient searched for when the operands exceed the integers (the
\* whole percents of a rate).
QuotLimit == 128

\* floor(a / b) for b > 0, as an integer.
NatQuot(a, b) ==
    IF Len(a) <= 2 /\ Len(b) <= 2 THEN IntOfNat(a) \div IntOfNat(b)
    ELSE CHOOSE q \in 0..QuotLimit :
            /\ NatCmp(NatMulSmall(b, q, 0), a) <= 0
            /\ NatCmp(a, NatMulSmall(b, q + 1, 0)) < 0

\* 10^k.
PowerOfTen(k) ==
    AsSeq([i \in 1..(k \div 4 + 1) |-> IF i <= k \div 4 THEN 0 ELSE 10 ^ (k % 4)])

\* The number of trailing decimal zeros of a > 0.
TrailingZeros(a) ==
    LET z == Min({k \in 1..Len(a) : a[k] # 0})
        l == a[z]
    IN  4 * (z - 1) + (IF l % 1000 = 0 THEN 3 ELSE IF l % 100 = 0 THEN 2
                       ELSE IF l % 10 = 0 THEN 1 ELSE 0)

\* a / 10^e for a divisible by 10^e.
DivPowerOfTen(a, e) ==
    LET sh == e \div 4
        p  == 10 ^ (e % 4)
    IN  Canon(AsSeq([k \in 1..(Len(a) - sh) |->
            (a[k + sh] \div p) + (Limb(a, k + sh + 1) % p) * (Base \div p)]))

(***************************************************************************)
(* Python floats: finite values are sign * n / d with n, d naturals; the   *)
(* other values are nan and the two infinities.  The operators follow IEEE *)
(* 754 as numpy applies it under its default error state: a division by    *)
(* zero yields nan or an infinity (and a RuntimeWarning), not an exception.*)
(***************************************************************************)
One == <<1>>

\* The decimal exponent below which every magnitude is under half the smallest
\* subnormal double (2^-1075 is about 2.47e-324) and so rounds to zero.
UnderflowExponent == 324

\* n / d < 10^-UnderflowExponent; the limb counts decide all but the closest cases.
Underflows(n, d) ==
    /\ 4 * (Len(d) - Len(n) + 1) > UnderflowExponent
    /\ NatCmp(NatMul(n, PowerOfTen(UnderflowExponent)), d) < 0

\* The finite value sign * n / d as a double: the power of ten common to n and d is
\* cancelled, and a magnitude too small for a double is zero.
Fin(s, n, d) ==
    IF n = <<>> \/ s = 0 \/ Underflows(n, d)
    THEN [k |-> "fin", s |-> 0, n |-> <<>>, d |-> One]
    ELSE LET e == Min({TrailingZeros(n), TrailingZeros(d)})
         IN  [k |-> "fin", s |-> s, n |-> DivPowerOfTen(n, e), d |-> DivPowerOfTen(d, e)]

NaN == [k |-> "nan", s |-> 0, n |-> <<>>, d |-> One]

Inf(s) == [k |-> "inf", s |-> s, n |-> <<>>, d |-> One]

FInt(i) == IF i < 0 THEN Fin(-1, NatOfInt(-i), One) ELSE Fin(1, NatOfInt(i), One)

IsFinite(x) == x.k = "fin"

IsNaN(x) == x.k = "nan"

FNeg(x) == IF x.k = "nan" THEN x ELSE [x EXCEPT !.s = -x.s]

\* Sum of two finite values: same sign adds magnitudes, else subtracts them.
FinAdd(x, y) ==
    IF x.s = 0 THEN y
    ELSE IF y.s = 0 THEN x
    ELSE LET xn == NatMul(x.n, y.d)
             yn == NatMul(y.n, x.d)
             dd == NatMul(x.d, y.d)
             c  == NatCmp(xn, yn)
         IN  IF x.s = y.s THEN Fin(x.s, NatAdd(xn, yn), dd)
             ELSE IF c = 0 THEN Fin(0, <<>>, One)
             ELSE IF c > 0 THEN Fin(x.s, NatSub(xn, yn), dd)
             ELSE Fin(y.s, NatSub(yn, xn), dd)

FAdd(x, y) ==
    IF x.k = "nan" \/ y.k = "nan" THEN NaN
    ELSE IF x.k = "inf" /\ y.k = "inf" THEN (IF x.s = y.s THEN x ELSE NaN)
    ELSE IF x.k = "inf" THEN x
    ELSE IF y.k = "inf" THEN y
    ELSE FinAdd(x, y)

FSub(x, y) == FAdd(x, FNeg(y))

FMul(x, y) ==
    IF x.k = "nan" \/ y.k = "nan" THEN NaN
    ELSE IF x.k = "inf" \/ y.k = "inf"
         THEN (IF x.s = 0 \/ y.s = 0 THEN NaN ELSE Inf(x.s * y.s))
    ELSE Fin(x.s * y.s, NatMul(x.n, y.n), NatMul(x.d, y.d))

\* x / y.  0 / 0 and inf / inf are nan; a nonzero value over zero is an infinity
\* (the zeros that reach a divisor here are +0.0).
FDiv(x, y) ==
    IF x.k = "nan" \/ y.k = "nan" THEN NaN
    ELSE IF x.k = "inf" /\ y.k = "inf" THEN NaN
    ELSE IF x.k = "inf" THEN Inf(IF y.s < 0 THEN -x.s ELSE x.s)
    ELSE IF y.k = "inf" THEN Fin(0, <<>>, One)
    ELSE IF y.s = 0 THEN (IF x.s = 0 THEN NaN ELSE Inf(x.s))
    ELSE Fin(x.s * y.s, NatMul(x.n, y.d), NatMul(x.d, y.n))

\* x ** t for an integer t >= 0; x ** 0 is 1.0 for every x, nan included.
RECURSIVE FPow(_, _)
FPow(x, t) == IF t = 0 THEN FInt(1) ELSE FMul(x, FPow(x, t - 1))

\* Comparisons; every comparison with nan is False.
FinCmp(x, y) ==
    IF x.s # y.s THEN (IF x.s < y.s THEN -1 ELSE 1)
    ELSE IF x.s = 0 THEN 0
    ELSE x.s * NatCmp(NatMul(x.n, y.d), NatMul(y.n, x.d))

FCmp(x, y) ==
    IF x.k = "inf" /\ y.k = "inf" THEN (IF x.s = y.s THEN 0 ELSE IF x.s < y.s THEN -1 ELSE 1)
    ELSE IF x.k = "inf" THEN x.s
    ELSE IF y.k = "inf" THEN -y.s
    ELSE FinCmp(x, y)

FLt(x, y) == x.k # "nan" /\ y.k # "nan" /\ FCmp(x, y) < 0

FLe(x, y) == x.k # "nan" /\ y.k # "nan" /\ FCmp(x, y) <= 0

FEq(x, y) == x.k # "nan" /\ y.k # "nan" /\ FCmp(x, y) = 0

(***************************************************************************)
(* Entry texts and their conversion.  A text is a sequence of characters.  *)
(* float() accepts, between optional blanks, an optional sign followed by  *)
(* digits with at most one point (at least one digit), or by inf or nan;   *)
(* int() accepts an optional sign followed by digits.  Anything else       *)
(* raises ValueError.  float() also accepts a decimal exponent (e or E,    *)
(* an optional sign, digits).  Digit-group underscores, which both accept, *)
(* are left out: no modelled text holds a "_".  The finite values of the   *)
(* modelled texts are far below the largest double, so no overflow to an   *)
(* infinity is modelled.                                                   *)
(***************************************************************************)
Digits == {"0", "1", "2", "3", "4", "5", "6", "7", "8", "9"}

DigitOf(c) ==
    CASE c = "0" -> 0 [] c = "1" -> 1 [] c = "2" -> 2 [] c = "3" -> 3
      [] c = "4" -> 4 [] c = "5" -> 5 [] c = "6" -> 6 [] c = "7" -> 7
      [] c = "8" -> 8 [] c = "9" -> 9

RECURSIVE StripLeft(_)
StripLeft(s) == IF s # <<>> /\ Head(s) = " " THEN StripLeft(Tail(s)) ELSE s

RECURSIVE StripRight(_)
StripRight(s) ==
    IF s # <<>> /\ s[Len(s)] = " " THEN StripRight(SubSeq(s, 1, Len(s) - 1)) ELSE s

Strip(s) == StripRight(StripLeft(s))

HasSign(s) == s # <<>> /\ Head(s) \in {"+", "-"}

SignOf(s) == IF s # <<>> /\ Head(s) = "-" THEN -1 ELSE 1

Unsigned(s) == IF HasSign(s) THEN Tail(s) ELSE s

AllDigits(s) == \A i \in 1..Len(s) : s[i] \in Digits

\* The natural a digit sequence writes, most significant digit first: limb k
\* holds the four digits of weights 10^(4k-4) to 10^(4k-1).
DigitAt(s, w) == IF w < Len(s) THEN DigitOf(s[Len(s) - w]) ELSE 0

NatOfDigits(s) ==
    Canon(AsSeq([k \in 1..((Len(s) + 3) \div 4) |->
        DigitAt(s, 4 * k - 4) + 10 * DigitAt(s, 4 * k - 3)
            + 100 * DigitAt(s, 4 * k - 2) + 1000 * DigitAt(s, 4 * k - 1)]))

Points(s) == {i \in 1..Len(s) : s[i] = "."}

Exponents(s) == {i \in 1..Len(s) : s[i] \in {"e", "E"}}

\* float(text): [ok |-> TRUE, v |-> the value] or [ok |-> FALSE] for ValueError.
float(text) ==
    LET s    == Strip(text)
        body == Unsigned(s)
        exs  == Exponents(body)
        ex   == IF exs = {} THEN Len(body) + 1 ELSE Min(exs)
        mant == SubSeq(body, 1, ex - 1)
        expt == SubSeq(body, ex + 1, Len(body))
        pts  == Points(mant)
        pt   == IF pts = {} THEN Len(mant) + 1 ELSE Min(pts)
        ip   == SubSeq(mant, 1, pt - 1)
        fp   == SubSeq(mant, pt + 1, Len(mant))
        e    == IF exs = {} THEN 0
                ELSE SignOf(expt) * IntOfNat(NatOfDigits(Unsigned(expt)))
    IN  IF body = <<"i", "n", "f">> THEN [ok |-> TRUE, v |-> Inf(SignOf(s))]
        ELSE IF body = <<"n", "a", "n">> THEN [ok |-> TRUE, v |-> NaN]
        ELSE IF /\ Cardinality(pts) <= 1
                /\ AllDigits(ip) /\ AllDigits(fp)
                /\ Len(ip) + Len(fp) >= 1
                /\ exs = {} \/ (Unsigned(expt) # <<>> /\ AllDigits(Unsigned(expt)))
             THEN [ok |-> TRUE,
                   v  |-> Fin(SignOf(s),
                              NatMul(NatOfDigits(ip \o fp),
                                     PowerOfTen(IF e > 0 THEN e ELSE 0)),
                              PowerOfTen(Len(fp) + (IF e < 0 THEN -e ELSE 0)))]
        ELSE [ok |-> FALSE, v |-> NaN]

\* int(text): [ok |-> TRUE, v |-> the integer] or [ok |-> FALSE] for ValueError
\* (texts of at most eight digits).
int(text) ==
    LET s    == Strip(text)
        body == Unsigned(s)
    IN  IF body # <<>> /\ AllDigits(body)
        THEN [ok |-> TRUE, v |-> SignOf(s) * IntOfNat(NatOfDigits(body))]
        ELSE [ok |-> FALSE, v |-> 0]

(***************************************************************************)
(* Conversions between floats and integers.                                *)
(***************************************************************************)
\* round(x, 2): the nearest multiple of 0.01, an exact tie going to the even one;
\* nan and the infinities are returned as they are.
round2(x) ==
    IF x.k # "fin" THEN x
    ELSE LET scaled == NatMulSmall(x.n, 100, 0)
             q      == NatQuot(scaled, x.d)
             rem    == NatSub(scaled, NatMul(NatOfInt(q), x.d))
             c      == NatCmp(NatMulSmall(rem, 2, 0), x.d)
             up     == c > 0 \/ (c = 0 /\ q % 2 = 1)
         IN  Fin(x.s, NatOfInt(IF up THEN q + 1 ELSE q), NatOfInt(100))

IsWhole(x) == x.k = "fin" /\ NatMul(NatOfInt(NatQuot(x.n, x.d)), x.d) = x.n

\* 2^k for 24 <= k <= 54, as the product of two integer powers.
PowerOfTwo(k) == NatMul(NatOfInt(2 ^ 24), NatOfInt(2 ^ (k - 24)))

\* The whole percents p < 128 for which the double nearest p / 100, times 100,
\* rounds to the double just below p (0.29 * 100 is 28.999999999999996).
LossyPercents == {29, 57, 58, 113, 114, 115, 116}

\* The gap between p and the double just below it: 2^-48 on [16, 32), 2^-47 on
\* [32, 64), 2^-46 on [64, 128).
UlpBelow(p) ==
    Fin(1, One, PowerOfTwo(IF p < 32 THEN 48 ELSE IF p < 64 THEN 47 ELSE 46))

\* rate * 100 in double arithmetic, for a rate that is float(text) / 100.
Times100(rate) ==
    LET exact == FMul(rate, FInt(100))
    IN  IF IsWhole(exact) /\ exact.s > 0 /\ NatQuot(exact.n, exact.d) \in LossyPercents
        THEN FSub(exact, UlpBelow(NatQuot(exact.n, exact.d)))
        ELSE exact

\* int(x) of a float: truncation toward zero; ValueError for nan, OverflowError
\* for an infinity.
int_of_float(x) ==
    IF x.k = "nan" THEN [exc |-> "ValueError", v |-> 0]
    ELSE IF x.k = "inf" THEN [exc |-> "OverflowError", v |-> 0]
    ELSE [exc |-> "none", v |-> x.s * NatQuot(x.n, x.d)]

(***************************************************************************)
(* numpy arrays: one-dimensional arrays are sequences; a two-dimensional   *)
(* array is its shape and its rows (an array of shape (0, n) has no rows   *)
(* and n columns).                                                         *)
(***************************************************************************)
\* np.arange(a, b) for integers: a, a + 1, ..., b - 1; empty when b <= a.
arange(a, b) == [i \in 1..(IF b > a THEN b - a ELSE 0) |-> a + i - 1]

\* The array of shape (nr, nc) whose cell (i, j) is cell[i, j].
Array(nr, nc, cell) ==
    [shape |-> <<nr, nc>>,
     at    |-> AsSeq([i \in 1..nr |-> AsSeq([j \in 1..nc |-> cell[i, j]])])]

EmptyArray == [shape |-> <<0, 0>>, at |-> <<>>]

\* np.meshgrid(t, r): T[i][j] = t[j] and R[i][j] = r[i], both of shape (len(r), len(t)).
meshgrid_T(t, r) ==
    Array(Len(r), Len(t), [i \in 1..Len(r), j \in 1..Len(t) |-> t[j]])

meshgrid_R(t, r) ==
    Array(Len(r), Len(t), [i \in 1..Len(r), j \in 1..Len(t) |-> r[i]])

Rows(a) == 1..a.shape[1]

Cols(a) == 1..a.shape[2]

(***************************************************************************)
(* generate_graph: the checks and formulas of the try block.               *)
(***************************************************************************)
Zero == FInt(0)

\* A variant that tests the minimum rate only.
rates_negative_min_only(min_rate, max_rate) == FLt(min_rate, Zero)

\* if min_rate < 0 or max_rate < 0
rates_negative(min_rate, max_rate) == FLt(min_rate, Zero) \/ FLt(max_rate, Zero)

\* A variant that lets start_time = end_time through.
time_invalid_strict(start_time, end_time) ==
    start_time < 0 \/ end_time < 0 \/ start_time > end_time

\* if start_time < 0 or end_time < 0 or start_time >= end_time
time_invalid(start_time, end_time) ==
    start_time < 0 \/ end_time < 0 \/ start_time >= end_time

\* A variant that compares the rate, already divided by 100, with -1 percent taken
\* as -1.
inflation_below_minus_one(inflation_rate) == FLt(inflation_rate, FInt(-1))

\* if inflation_rate < 0
inflation_negative(inflation_rate) == FLt(inflation_rate, Zero)

\* A variant that leaves the "+ 1" out of the upper bound.
rate_bounds_exclusive(min_rate, max_rate) ==
    LET lo == int_of_float(Times100(min_rate))
        hi == int_of_float(Times100(max_rate))
    IN  IF lo.exc # "none" THEN [exc |-> lo.exc, lo |-> 0, hi |-> 0]
        ELSE IF hi.exc # "none" THEN [exc |-> hi.exc, lo |-> 0, hi |-> 0]
        ELSE [exc |-> "none", lo |-> lo.v, hi |-> hi.v]

\* int(min_rate * 100) and int(max_rate * 100) + 1, evaluated in that order: the
\* first conversion that raises decides the exception.
rate_bounds(min_rate, max_rate) ==
    LET lo == int_of_float(Times100(min_rate))
        hi == int_of_float(Times100(max_rate))
    IN  IF lo.exc # "none" THEN [exc |-> lo.exc, lo |-> 0, hi |-> 0]
        ELSE IF hi.exc # "none" THEN [exc |-> hi.exc, lo |-> 0, hi |-> 0]
        ELSE [exc |-> "none", lo |-> lo.v, hi |-> hi.v + 1]

\* np.arange(lo, hi) / 100
rate_steps(lo, hi) ==
    LET k == arange(lo, hi) IN [i \in 1..Len(k) |-> FDiv(FInt(k[i]), FInt(100))]

\* A variant that raises R, not 1 + R, to the power T.
growth_of_rate_alone(R, T) == FPow(R, T)

\* (1 + R) ** T
growth(R, T) == FPow(FAdd(FInt(1), R), T)

\* Financial_Matrix.py: the divisor of the contribution term.
FM_divisor(R) == R

\* A = principal * (1 + R)**T + annual_contribution * ((1 + R)**T - 1) / R
FM_balance(principal, annual_contribution, R, T) ==
    FAdd(FMul(principal, growth(R, T)),
         FDiv(FMul(annual_contribution, FSub(growth(R, T), FInt(1))), FM_divisor(R)))

\* epsilon = 1e-10
epsilon == Fin(1, One, PowerOfTen(10))

\* Hover_Template_1.py: the divisor of the contribution term, R + epsilon.
HT_divisor(R) == FAdd(R, epsilon)

\* np.where(R == 0, principal + annual_contribution * T,
\*          principal * (1 + R) ** T
\*              + annual_contribution * (((1 + R) ** T) - 1) / (R + epsilon))
HT_nominal(principal, annual_contribution, R, T) ==
    IF FEq(R, Zero)
    THEN FAdd(principal, FMul(annual_contribution, FInt(T)))
    ELSE FAdd(FMul(principal, growth(R, T)),
              FDiv(FMul(annual_contribution, FSub(growth(R, T), FInt(1))),
                   HT_divisor(R)))

\* A variant that multiplies by the inflation factor instead of dividing by it.
HT_real_inflated(A_nominal, inflation_rate, T) ==
    FMul(A_nominal, FPow(FAdd(FInt(1), inflation_rate), T))

\* real_A = A_nominal / ((1 + inflation_rate) ** T)
HT_real(A_nominal, inflation_rate, T) ==
    FDiv(A_nominal, FPow(FAdd(FInt(1), inflation_rate), T))

\* The RuntimeWarnings numpy emits for the division by R over the grid: 0 / 0 is
\* "invalid value", a nonzero value over 0 is "divide by zero".
divide_warnings(numerator, divisor) ==
    {"invalid value encountered in divide" :
        x \in {<<i, j>> \in Rows(divisor) \X Cols(divisor) :
                 /\ FEq(divisor.at[i][j], Zero)
                 /\ FEq(numerator.at[i][j], Zero)}}
    \cup
    {"divide by zero encountered in divide" :
        x \in {<<i, j>> \in Rows(divisor) \X Cols(divisor) :
                 /\ FEq(divisor.at[i][j], Zero)
                 /\ ~FEq(numerator.at[i][j], Zero) /\ ~IsNaN(numerator.at[i][j])}}

(***************************************************************************)
(* What one call of generate_graph leaves behind: the figure fig.show()    *)
(* displayed (with the arrays it was built from), or none.                 *)
(***************************************************************************)
NoFigure ==
    [shown |-> FALSE, T |-> EmptyArray, R |-> EmptyArray, A |-> EmptyArray,
     real_A |-> EmptyArray, has_real |-> FALSE, inflation_rate |-> Zero,
     warnings |-> {}]

Raise(exc, msg) == [exc |-> exc, msg |-> msg, fig |-> NoFigure]

\* The element of a one-element set; { e : x \in {v} } names the value v as x in e.
Only(S) == CHOOSE x \in S : TRUE

\* Financial_Matrix.py lines 24-64: the grid, the balances and fig.show().
FM_surface(principal, annual_contribution, T, R) ==
    LET A == [i \in Rows(R), j \in Cols(R) |->
                 FM_balance(principal, annual_contribution, R.at[i][j], T.at[i][j])]
        numerator ==
            [i \in Rows(R), j \in Cols(R) |->
                FMul(annual_contribution,
                     FSub(growth(R.at[i][j], T.at[i][j]), FInt(1)))]
        divisor == [i \in Rows(R), j \in Cols(R) |-> FM_divisor(R.at[i][j])]
    IN  [exc |-> "none", msg |-> "",
         fig |-> [shown |-> TRUE, T |-> T, R |-> R,
                  A |-> Array(R.shape[1], R.shape[2], A),
                  real_A |-> EmptyArray, has_real |-> FALSE,
                  inflation_rate |-> Zero,
                  warnings |-> divide_warnings(Array(R.shape[1], R.shape[2], numerator),
                                               Array(R.shape[1], R.shape[2], divisor))]]

\* Lines 24-28: t, r and the meshgrid; int() of a rate that is nan or infinite
\* raises before any array exists.
FM_ranges(principal, annual_contribution, rb, t) ==
    IF rb.exc = "ValueError"
    THEN Raise("ValueError", "cannot convert float NaN to integer")
    ELSE IF rb.exc = "OverflowError"
    THEN Raise("OverflowError", "cannot convert float infinity to integer")
    ELSE Only({FM_surface(principal, annual_contribution, T, R) :
                  T \in {meshgrid_T(t, rate_steps(rb.lo, rb.hi))},
                  R \in {meshgrid_R(t, rate_steps(rb.lo, rb.hi))}})

\* Lines 18-21: the two validations.
FM_validated(principal, annual_contribution, min_rate, max_rate, start_time, end_time) ==
    IF rates_negative(min_rate, max_rate)
    THEN Raise("ValueError", "Growth rates cannot be negative.")
    ELSE IF time_invalid(start_time, end_time)
    THEN Raise("ValueError",
               "Invalid time range: Start time must be less than end time.")
    ELSE Only({FM_ranges(principal, annual_contribution, rb, t) :
                  rb \in {rate_bounds(min_rate, max_rate)},
                  t \in {arange(start_time, end_time + 1)}})

\* Lines 10-15: the six conversions; the rates are divided by 100.
FM_parsed(p, c, mn, mx, st, en) ==
    IF ~p.ok \/ ~c.ok \/ ~mn.ok \/ ~mx.ok
    THEN Raise("ValueError", "could not convert string to float")
    ELSE IF ~st.ok \/ ~en.ok
    THEN Raise("ValueError", "invalid literal for int() with base 10")
    ELSE Only({FM_validated(p.v, c.v, min_rate, max_rate, st.v, en.v) :
                  min_rate \in {FDiv(mn.v, FInt(100))},
                  max_rate \in {FDiv(mx.v, FInt(100))}})

\* Financial_Matrix.py, the try block of generate_graph (lines 9-64).
FM_try(principal, annual_contribution, min_rate, max_rate, start_time, end_time) ==
    Only({FM_parsed(p, c, mn, mx, st, en) :
             p \in {float(principal)}, c \in {float(annual_contribution)},
             mn \in {float(min_rate)}, mx \in {float(max_rate)},
             st \in {int(start_time)}, en \in {int(end_time)}})

\* Hover_Template_1.py lines 46-79: the real balances, the shape assertion and
\* fig.show().  real_A is built cell by cell from A_nominal and T, so the
\* assertion real_A.shape == T.shape never fails.
HT_surface(annual_contribution, inflation_rate, T, R, A_nominal) ==
    LET numerator ==
            [i \in Rows(R), j \in Cols(R) |->
                FMul(annual_contribution,
                     FSub(growth(R.at[i][j], T.at[i][j]), FInt(1)))]
        divisor == [i \in Rows(R), j \in Cols(R) |-> HT_divisor(R.at[i][j])]
        real    == [i \in Rows(A_nominal), j \in Cols(A_nominal) |->
                       HT_real(A_nominal.at[i][j], inflation_rate, T.at[i][j])]
    IN  Only({IF real_A.shape # T.shape
              THEN Raise("AssertionError", "Shape mismatch between real_A and T")
              ELSE [exc |-> "none", msg |-> "",
                    fig |-> [shown |-> TRUE, T |-> T, R |-> R, A |-> A_nominal,
                             real_A |-> real_A, has_real |-> TRUE,
                             inflation_rate |-> inflation_rate,
                             warnings |->
                                 divide_warnings(
                                     Array(R.shape[1], R.shape[2], numerator),
                                     Array(R.shape[1], R.shape[2], divisor))]]
              : real_A \in {Array(A_nominal.shape[1], A_nominal.shape[2], real)}})

\* Lines 38-43: the nominal balances over the grid.
HT_grid(principal, annual_contribution, inflation_rate, T, R) ==
    LET A == [i \in Rows(R), j \in Cols(R) |->
                 HT_nominal(principal, annual_contribution, R.at[i][j], T.at[i][j])]
    IN  Only({HT_surface(annual_contribution, inflation_rate, T, R, A_nominal) :
                 A_nominal \in {Array(R.shape[1], R.shape[2], A)}})

\* Lines 27-30: t, r and the meshgrid.
HT_ranges(principal, annual_contribution, inflation_rate, rb, t) ==
    IF rb.exc = "ValueError"
    THEN Raise("ValueError", "cannot convert float NaN to integer")
    ELSE IF rb.exc = "OverflowError"
    THEN Raise("OverflowError", "cannot convert float infinity to integer")
    ELSE Only({HT_grid(principal, annual_contribution, inflation_rate, T, R) :
                  T \in {meshgrid_T(t, rate_steps(rb.lo, rb.hi))},
                  R \in {meshgrid_R(t, rate_steps(rb.lo, rb.hi))}})

\* Lines 19-24: the three validations.
HT_validated(principal, annual_contribution, min_rate, max_rate, start_time, end_time, inflation_rate) ==
    IF rates_negative(min_rate, max_rate)
    THEN Raise("ValueError", "Growth rates cannot be negative.")
    ELSE IF time_invalid(start_time, end_time)
    THEN Raise("ValueError",
               "Invalid time range: start time must be < end time, both >= 0.")
    ELSE IF inflation_negative(inflation_rate)
    THEN Raise("ValueError", "Inflation rate cannot be negative.")
    ELSE Only({HT_ranges(principal, annual_contribution, inflation_rate, rb, t) :
                  rb \in {rate_bounds(min_rate, max_rate)},
                  t \in {arange(start_time, end_time + 1)}})

\* Lines 10-16: the seven conversions (int() of the two times comes before
\* float() of the inflation rate); inflation_rate = round(float(...), 2) / 100.
HT_parsed(p, c, mn, mx, st, en, inf) ==
    IF ~p.ok \/ ~c.ok \/ ~mn.ok \/ ~mx.ok
    THEN Raise("ValueError", "could not convert string to float")
    ELSE IF ~st.ok \/ ~en.ok
    THEN Raise("ValueError", "invalid literal for int() with base 10")
    ELSE IF ~inf.ok
    THEN Raise("ValueError", "could not convert string to float")
    ELSE Only({HT_validated(p.v, c.v, min_rate, max_rate, st.v, en.v, inflation_rate) :
                  min_rate \in {FDiv(mn.v, FInt(100))},
                  max_rate \in {FDiv(mx.v, FInt(100))},
                  inflation_rate \in {FDiv(round2(inf.v), FInt(100))}})

\* Hover_Template_1.py, the try block of generate_graph (lines 9-79).
HT_try(principal, annual_contribution, min_rate, max_rate, start_time, end_time, inflation_rate) ==
    Only({HT_parsed(p, c, mn, mx, st, en, inf) :
             p \in {float(principal)}, c \in {float(annual_contribution)},
             mn \in {float(min_rate)}, mx \in {float(max_rate)},
             st \in {int(start_time)}, en \in {int(end_time)},
             inf \in {float(inflation_rate)}})

(***************************************************************************)
(* The except clauses of generate_graph and the button handler.            *)
(***************************************************************************)
\* A variant without the class hierarchy: only the class itself matches.
IsInstance_same_class(exc, cls) == exc = cls

\* isinstance(exc, cls) for the exception classes raised here.
IsInstance(exc, cls) ==
    \/ exc = cls
    \/ cls = "Exception"
           /\ exc \in {"ValueError", "OverflowError", "ArithmeticError", "AssertionError"}
    \/ cls = "ArithmeticError" /\ exc = "OverflowError"

\* except ValueError as e: messagebox.showerror("Input Error", ...)
\* except Exception as e:  messagebox.showerror("Error", ...)
\* An exception neither clause catches leaves generate_graph.
except_clauses(r) ==
    IF r.exc = "none"
    THEN [title |-> "", detail |-> "", fig |-> r.fig, escaped |-> "none"]
    ELSE IF IsInstance(r.exc, "ValueError")
    THEN [title |-> "Input Error", detail |-> r.msg, fig |-> NoFigure,
          escaped |-> "none"]
    ELSE IF IsInstance(r.exc, "Exception")
    THEN [title |-> "Error", detail |-> r.msg, fig |-> NoFigure, escaped |-> "none"]
    ELSE [title |-> "", detail |-> "", fig |-> NoFigure, escaped |-> r.exc]

FM_generate_graph(principal, annual_contribution, min_rate, max_rate, start_time, end_time) ==
    Only({except_clauses(r) :
             r \in {FM_try(principal, annual_contribution, min_rate, max_rate,
                           start_time, end_time)}})

HT_generate_graph(principal, annual_contribution, min_rate, max_rate, start_time, end_time, inflation_rate) ==
    Only({except_clauses(r) :
             r \in {HT_try(principal, annual_contribution, min_rate, max_rate,
                           start_time, end_time, inflation_rate)}})

\* The entry labels.
LPrincipal == "Principal Starting Balance ($)"

LContribution == "Annual Contributions ($)"

LMinRate == "Minimum Growth Rate (%)"

LMaxRate == "Maximum Growth Rate (%)"

LStart == "Start Time (years)"

LEnd == "End Time (years)"

LInflation == "Inflation Rate (%)"

FM == "Financial_Matrix.py"

HT == "Hover_Template_1.py"

Labels(prog) ==
    {LPrincipal, LContribution, LMinRate, LMaxRate, LStart, LEnd}
    \cup (IF prog = HT THEN {LInflation} ELSE {})

\* on_generate: read every entry, call generate_graph; except Exception shows
\* "Error generating graph".
on_generate(prog, values) ==
    Only({IF g.escaped # "none" /\ IsInstance(g.escaped, "Exception")
          THEN [g EXCEPT !.title = "Error", !.detail = "Error generating graph",
                         !.escaped = "none"]
          ELSE g
          : g \in {IF prog = FM
                   THEN FM_generate_graph(values[LPrincipal], values[LContribution],
                                          values[LMinRate], values[LMaxRate],
                                          values[LStart], values[LEnd])
                   ELSE HT_generate_graph(values[LPrincipal], values[LContribution],
                                          values[LMinRate], values[LMaxRate],
                                          values[LStart], values[LEnd],
                                          values[LInflation])}})

(***************************************************************************)
(* The form.  The texts a user types are drawn from small sets per entry;  *)
(* MaxPercent and MaxYear bound the largest rate and the last year typed.  *)
(***************************************************************************)
MaxPercent == 3

MaxYear == 2

DigitChar(n) == CHOOSE c \in Digits : DigitOf(c) = n

RECURSIVE Numeral(_)
Numeral(n) ==
    IF n < 10 THEN <<DigitChar(n)>> ELSE Numeral(n \div 10) \o <<DigitChar(n % 10)>>

PrincipalTexts == {<<"1", "0", "0", "0">>, <<"-", "1", "0", "0", "0">>, <<"a", "b", "c">>}

ContributionTexts == {<<"5", "0", "0">>, <<"0">>, <<"-", "5", "0", "0">>}

MinRateTexts ==
    {<<"0">>, <<"2", ".", "5">>, <<"-", "1">>, <<"-", "1", "e", "-", "3", "2", "3">>}

MaxRateTexts ==
    {<<"0">>, Numeral(MaxPercent), <<"-", "1">>, <<"i", "n", "f">>, <<"n", "a", "n">>}

StartTexts == {<<"0">>, <<"1">>, <<"-", "1">>}

EndTexts == {Numeral(y) : y \in 1..MaxYear} \cup {<<"-", "1">>, <<"1", ".", "5">>}

InflationTexts ==
    {<<"3", ".", "3">>, <<"0", ".", "0", "0", "4">>, <<"-", "0", ".", "0", "0", "4">>,
     <<"-", "1">>}

Texts(label) ==
    CASE label = LPrincipal -> PrincipalTexts
      [] label = LContribution -> ContributionTexts
      [] label = LMinRate -> MinRateTexts
      [] label = LMaxRate -> MaxRateTexts
      [] label = LStart -> StartTexts
      [] label = LEnd -> EndTexts
      [] label = LInflation -> InflationTexts

\* The wider rate texts of the sessions that exercise int(rate * 100).
WideRateTexts ==
    {<<"2", "8">>, <<"2", "9">>, <<"2", "9", ".", "5">>, <<"3", "0">>, <<"3", "1">>}

VARIABLES program, entries, last, erred

vars == <<program, entries, last, erred>>

\* No call of on_generate since the form was last edited.
NoInvocation ==
    [called |-> FALSE, title |-> "", detail |-> "", fig |-> NoFigure,
     escaped |-> "none"]

\* What a finished call did: rendered a surface, or showed one of the dialogs.
Kind(inv) ==
    IF inv.escaped # "none" THEN "escaped"
    ELSE IF inv.fig.shown THEN "surface"
    ELSE IF inv.title = "Input Error" THEN "input_error"
    ELSE IF inv.title = "Error" THEN "error"
    ELSE "nothing"

\* History: an invocation that finished before the current one showed an error
\* dialog.  The program keeps no such record; erred only observes the run.
Erred == erred \/ (last.called /\ Kind(last) \in {"input_error", "error"})

\* create_gui: the entries with their default texts.  The grid is bounded: the
\* default maximum rate (15 percent) and end time (30 years), which span a grid of
\* 16 x 31 cells, stand as MaxPercent and MaxYear.
create_gui(prog) ==
    [l \in Labels(prog) |->
        CASE l = LPrincipal -> <<"1", "0", "0", "0">>
          [] l = LContribution -> <<"5", "0", "0">>
          [] l = LMinRate -> <<"0">>
          [] l = LMaxRate -> Numeral(MaxPercent)
          [] l = LStart -> <<"0">>
          [] l = LEnd -> Numeral(MaxYear)
          [] l = LInflation -> <<"3", ".", "3">>]

Init ==
    /\ program \in {FM, HT}
    /\ entries = create_gui(program)
    /\ last = NoInvocation
    /\ erred = FALSE

\* The user retypes one entry.
EditEntry ==
    \E l \in Labels(program) : \E text \in Texts(l) :
        /\ text # entries[l]
        /\ entries' = [entries EXCEPT ![l] = text]
        /\ last' = NoInvocation
        /\ erred' = Erred
        /\ UNCHANGED program

\* The user presses "Generate Graph": on_generate runs to completion (the error
\* dialogs are modal, so it returns once the dialog is dismissed).
Generate ==
    /\ last' = [called |-> TRUE] @@ on_generate(program, entries)
    /\ erred' = Erred
    /\ UNCHANGED <<program, entries>>

Next == EditEntry \/ Generate

Spec == Init /\ [][Next]_vars

\* Sessions on the rate axis: the other entries keep their first texts, the two
\* rate entries range over WideRateTexts.
InitRates ==
    /\ program \in {FM, HT}
    /\ entries = [create_gui(program) EXCEPT ![LMinRate] = <<"2", "8">>,
                                             ![LMaxRate] = <<"3", "0">>]
    /\ last = NoInvocation
    /\ erred = FALSE

EditRate ==
    \E l \in {LMinRate, LMaxRate} : \E text \in WideRateTexts :
        /\ text # entries[l]
        /\ entries' = [entries EXCEPT ![l] = text]
        /\ last' = NoInvocation
        /\ erred' = Erred
        /\ UNCHANGED program

EditYear ==
    \E l \in {LStart, LEnd} : \E text \in {Numeral(y) : y \in 0..MaxYear} :
        /\ text # entries[l]
        /\ entries' = [entries EXCEPT ![l] = text]
        /\ last' = NoInvocation
        /\ erred' = Erred
        /\ UNCHANGED program

NextRates == EditRate \/ EditYear \/ Generate

SpecRates == InitRates /\ [][NextRates]_vars

(***************************************************************************)
(* Properties.  They read the figure the last call of on_generate left     *)
(* (last), which belongs to the texts now in the entries: Generate leaves  *)
(* the entries alone and every edit clears last.                           *)
(***************************************************************************)
\* The last press of the button rendered a surface.
Shown == last.called /\ last.fig.shown

\* The cells of the rendered grid, as <<row, column>>.
Cells == IF Shown THEN Rows(last.fig.A) \X Cols(last.fig.A) ELSE {}

Balance(cell) == last.fig.A.at[cell[1]][cell[2]]

RealBalance(cell) == last.fig.real_A.at[cell[1]][cell[2]]

Rate(cell) == last.fig.R.at[cell[1]][cell[2]]

Year(cell) == last.fig.T.at[cell[1]][cell[2]]

\* The values the principal and contribution entries parse to.
Principal == float(entries[LPrincipal]).v

Contribution == float(entries[LContribution]).v

\* principal * (1 + R)^T + annual_contribution * ((1 + R)^T - 1) / R, with R itself
\* as the divisor.
ExactBalance(principal, annual_contribution, R, T) ==
    FAdd(FMul(principal, FPow(FAdd(FInt(1), R), T)),
         FDiv(FMul(annual_contribution, FSub(FPow(FAdd(FInt(1), R), T), FInt(1))), R))

\* C1: in both programs every cell of a rendered grid whose rate is 0 holds exactly
\* principal + annual contribution * T.  Financial_Matrix.py breaks it: its rate-0
\* row is 0 / 0 = nan.
C1_ZeroRateRowIsLinear ==
    \A cell \in Cells :
        FEq(Rate(cell), Zero)
            => FEq(Balance(cell), FAdd(Principal, FMul(Contribution, FInt(Year(cell)))))

\* C7: in both programs every cell of a rendered grid whose rate R is not 0 holds
\* exactly principal * (1 + R)^T + contribution * ((1 + R)^T - 1) / R, R itself being
\* the divisor.  Hover_Template_1.py breaks it: it divides by R + 1e-10.
C7_NonzeroRateCellsAreExact ==
    \A cell \in Cells :
        ~FEq(Rate(cell), Zero)
            => FEq(Balance(cell),
                   ExactBalance(Principal, Contribution, Rate(cell), Year(cell)))

\* C8: in Financial_Matrix.py the contribution term of every cell is divided by
\* R + 1e-10, so that no divisor is 0 and numpy reports no division by zero.
\* Financial_Matrix.py breaks it: it divides by R, which is 0 on the rate-0 row.
C8_FMDividesByRatePlusEpsilon ==
    program = FM /\ Shown
        => /\ \A cell \in Cells :
                  /\ FEq(FM_divisor(Rate(cell)), FAdd(Rate(cell), epsilon))
                  /\ ~FEq(FM_divisor(Rate(cell)), Zero)
           /\ last.fig.warnings = {}

\* The entries converted with float() and with int().
FloatLabels == Labels(program) \ {LStart, LEnd}

IntLabels == {LStart, LEnd}

\* Some entry holds a text its conversion rejects.
Unparseable ==
    \/ \E l \in FloatLabels : ~float(entries[l]).ok
    \/ \E l \in IntLabels : ~int(entries[l]).ok

\* Some entry holds a text that writes no number at all.
NotANumber == \E l \in Labels(program) : ~float(entries[l]).ok

\* A growth rate entry holds a negative number of percent.
NegativePercent ==
    \E l \in {LMinRate, LMaxRate} :
        float(entries[l]).ok /\ FLt(float(entries[l]).v, Zero)

\* A growth rate, once divided by 100, is a negative double.
NegativeRate ==
    \E l \in {LMinRate, LMaxRate} :
        float(entries[l]).ok /\ FLt(FDiv(float(entries[l]).v, FInt(100)), Zero)

\* A time entry holds a negative number, or the start is not before the end.
NegativeTime ==
    \E l \in IntLabels : float(entries[l]).ok /\ FLt(float(entries[l]).v, Zero)

InvertedTimes ==
    /\ float(entries[LStart]).ok /\ float(entries[LEnd]).ok
    /\ FLe(float(entries[LEnd]).v, float(entries[LStart]).v)

\* C2 as stated: a press with an entry that is no number, a negative growth rate,
\* a negative start or end, or start >= end shows "Input Error", never "Error" or a
\* surface.  A negative rate of -1e-323 percent refutes it: divided by 100 it is
\* -0.0, which "< 0" does not reject.
C2_InvalidInputIsInputError ==
    last.called /\ (NotANumber \/ NegativePercent \/ NegativeTime \/ InvertedTimes)
        => Kind(last) = "input_error"

\* C2, amended: a press with an entry its conversion rejects, a growth rate that is
\* negative after the division by 100, a negative start or end, or start >= end
\* shows "Input Error" and renders nothing.
C2_RejectedInputIsInputError ==
    last.called /\ (Unparseable \/ NegativeRate \/ NegativeTime \/ InvertedTimes)
        => Kind(last) = "input_error" /\ ~last.fig.shown /\ last.title = "Input Error"

\* A press with start >= end as its only fault, answered with "Input Error".
C2_Witness ==
    /\ last.called /\ program = FM
    /\ ~Unparseable /\ ~NegativeRate /\ ~NegativeTime /\ InvertedTimes
    /\ last.title = "Input Error"

\* The number the inflation entry holds.
InflationPercent == float(entries[LInflation]).v

InflationParses == program = HT /\ float(entries[LInflation]).ok

\* C3 as stated: in Hover_Template_1.py a press with a negative inflation entry,
\* however small, shows "Input Error" and renders nothing.  -0.004 refutes it:
\* round(-0.004, 2) is -0.0, which is accepted.
C3_NegativeInflationIsInputError ==
    last.called /\ InflationParses /\ FLt(InflationPercent, Zero)
        => Kind(last) = "input_error" /\ ~last.fig.shown

\* C3, amended: in Hover_Template_1.py a press with an inflation entry whose
\* rounding to two decimals is negative shows "Input Error" and renders nothing,
\* and the inflation rate of every rendered surface is not negative.
C3_RoundedNegativeInflationIsInputError ==
    /\ last.called /\ InflationParses /\ FLt(round2(InflationPercent), Zero)
           => Kind(last) = "input_error" /\ ~last.fig.shown
    /\ Shown /\ program = HT => ~FLt(last.fig.inflation_rate, Zero)

\* The inflation check itself raised: everything before it was accepted.
C3_Witness ==
    /\ last.called /\ program = HT
    /\ FLt(round2(InflationPercent), Zero)
    /\ last.detail = "Inflation rate cannot be negative."

\* The numbers the rate and time entries hold.
MinRatePercent == float(entries[LMinRate]).v

MaxRatePercent == float(entries[LMaxRate]).v

StartYear == int(entries[LStart]).v

EndYear == int(entries[LEnd]).v

\* floor(x) of a finite x.
Floor(x) ==
    IF x.s >= 0 THEN NatQuot(x.n, x.d)
    ELSE IF IsWhole(x) THEN -NatQuot(x.n, x.d) ELSE -NatQuot(x.n, x.d) - 1

\* int((p / 100) * 100) for a percentage p >= 0 in double arithmetic: floor(p), but
\* one less when p is one of the whole percents whose product falls just below p.
TruncatedPercent(p) ==
    IF IsWhole(p) /\ Floor(p) \in LossyPercents THEN Floor(p) - 1
    ELSE IF p.s < 0 THEN -NatQuot(p.n, p.d)
    ELSE Floor(p)

AtLeastZero(n) == IF n < 0 THEN 0 ELSE n

\* C4 as stated: a rendered grid has floor(max percent) - floor(min percent) + 1
\* rows and end - start + 1 columns, max < min included.  A maximum below the
\* minimum refutes it (no rows, not a negative count), and so does a maximum of
\* 29 percent (int(0.29 * 100) is 28).
C4_RowsAreFloorDifference ==
    Shown
        => last.fig.A.shape = <<Floor(MaxRatePercent) - Floor(MinRatePercent) + 1,
                                EndYear - StartYear + 1>>

\* C4, amended: a rendered grid has end - start + 1 columns and
\* max(0, int(max_rate * 100) - int(min_rate * 100) + 1) rows, the products being
\* double products; T, R, the balances and the real balances all have that shape.
C4_RowsAreTruncatedRange ==
    Shown
        => /\ last.fig.A.shape =
                  <<AtLeastZero(TruncatedPercent(MaxRatePercent)
                                    - TruncatedPercent(MinRatePercent) + 1),
                    EndYear - StartYear + 1>>
           /\ last.fig.T.shape = last.fig.A.shape
           /\ last.fig.R.shape = last.fig.A.shape
           /\ last.fig.has_real => last.fig.real_A.shape = last.fig.A.shape
           /\ Len(last.fig.A.at) = last.fig.A.shape[1]
           /\ \A i \in Rows(last.fig.A) : Len(last.fig.A.at[i]) = last.fig.A.shape[2]

\* A surface with the maximum rate below the minimum: a grid without rows.
C4_Witness ==
    /\ Shown /\ FLt(MaxRatePercent, MinRatePercent)
    /\ last.fig.A.shape[1] = 0 /\ last.fig.A.shape[2] > 1

\* A surface whose maximum rate is 29 percent and whose last row is 28 percent.
C4_WitnessLossy ==
    /\ Shown /\ FEq(MaxRatePercent, FInt(29))
    /\ last.fig.A.shape[1] > 0
    /\ FEq(last.fig.R.at[last.fig.A.shape[1]][1], FDiv(FInt(28), FInt(100)))

\* The balances of row i do not decrease from one column to the next ones.
RowNonDecreasing(i) ==
    \A j1, j2 \in Cols(last.fig.A) :
        j1 < j2 => FLe(last.fig.A.at[i][j1], last.fig.A.at[i][j2])

\* The rows of the rendered grid whose rate is above 0.
PositiveRateRows ==
    IF Shown
    THEN {i \in Rows(last.fig.A) :
             \A j \in Cols(last.fig.A) : FLt(Zero, last.fig.R.at[i][j])}
    ELSE {}

\* C5 as stated: with a contribution >= 0 and any principal, the balance of every
\* row with a rate above 0 does not decrease with the years.  A negative principal
\* without contributions refutes it: -1000 becomes -1010.
C5_BalanceGrowsWithYears ==
    FLe(Zero, Contribution) => \A i \in PositiveRateRows : RowNonDecreasing(i)

\* C5, amended: with a contribution >= 0 and a principal >= 0, the (finite)
\* balances of every row with a rate above 0 do not decrease with the years.
C5_NonNegativeBalanceGrowsWithYears ==
    FLe(Zero, Contribution) /\ FLe(Zero, Principal)
        => \A i \in PositiveRateRows :
               /\ \A j \in Cols(last.fig.A) : IsFinite(last.fig.A.at[i][j])
               /\ RowNonDecreasing(i)

\* A row of several years with a rate above 0 whose balance grows.
C5_Witness ==
    /\ FLe(Zero, Contribution) /\ FLe(Zero, Principal)
    /\ \E i \in PositiveRateRows :
           /\ last.fig.A.shape[2] > 1
           /\ FLt(last.fig.A.at[i][1], last.fig.A.at[i][last.fig.A.shape[2]])

\* The cells of a Hover_Template_1.py surface in a year T > 0.
LaterCells == IF program = HT THEN {cell \in Cells : Year(cell) > 0} ELSE {}

\* C6 as stated: in Hover_Template_1.py, with an inflation entry above 0, the real
\* balance of every cell with T > 0 is below its nominal balance.  An inflation of
\* 0.004 percent refutes it (it is rounded to 0), and so does a negative balance.
C6_RealBelowNominal ==
    InflationParses /\ FLt(Zero, InflationPercent)
        => \A cell \in LaterCells : FLt(RealBalance(cell), Balance(cell))

\* C6, amended: in Hover_Template_1.py, with an inflation entry whose rounding to
\* two decimals is above 0, the real balance of every cell with T > 0 and a
\* nominal balance above 0 is below the nominal balance; it equals a nominal
\* balance of 0 and is above a nominal balance below 0.
C6_RealBelowPositiveNominal ==
    InflationParses /\ FLt(Zero, round2(InflationPercent))
        => \A cell \in LaterCells :
               /\ FLt(Zero, Balance(cell)) => FLt(RealBalance(cell), Balance(cell))
               /\ FEq(Zero, Balance(cell)) => FEq(RealBalance(cell), Balance(cell))
               /\ FLt(Balance(cell), Zero) => FLt(Balance(cell), RealBalance(cell))

\* A surface with inflation above 0 and a positive balance in a later year.
C6_Witness ==
    /\ InflationParses /\ FLt(Zero, round2(InflationPercent))
    /\ \E cell \in LaterCells :
           FLt(Zero, Balance(cell)) /\ FLt(RealBalance(cell), Balance(cell))

\* What the texts now in the entries call for, read off the texts alone: an entry
\* that is rejected or out of range is an input error, a rate that is nan cannot
\* be converted by int() (ValueError), an infinite one overflows it (OverflowError,
\* the generic dialog); the minimum rate is converted first.
ExpectedOutcome ==
    IF Unparseable \/ NegativeRate \/ NegativeTime \/ InvertedTimes THEN "input_error"
    ELSE IF program = HT /\ FLt(round2(InflationPercent), Zero) THEN "input_error"
    ELSE IF IsNaN(MinRatePercent) THEN "input_error"
    ELSE IF ~IsFinite(MinRatePercent) THEN "error"
    ELSE IF IsNaN(MaxRatePercent) THEN "input_error"
    ELSE IF ~IsFinite(MaxRatePercent) THEN "error"
    ELSE "surface"

\* C9: whatever was typed and whatever the earlier presses did, no exception
\* leaves on_generate, and a press is decided by the texts then in the entries
\* alone: an earlier error changes nothing.  (The button takes a press in every
\* state: Generate has no guard.)
C9_FormStaysUsable ==
    /\ last.escaped = "none"
    /\ last.called => Kind(last) = ExpectedOutcome

\* A surface rendered after an earlier press had shown an error dialog.
C9_Witness == erred /\ last.called /\ Kind(last) = "surface"

\* The outcomes of a press: a rendered surface or one of the two dialogs.
Outcomes ==
    {o \in {"surface", "Input Error", "Error"} :
        \/ o = "surface" /\ last.fig.shown
        \/ o # "surface" /\ last.title = o}

\* C10: a press ends in exactly one of a rendered surface, the "Input Error"
\* dialog and the "Error" dialog; a surface is rendered only when every entry was
\* converted and every validation passed; a press that showed a dialog rendered
\* nothing.
C10_OneOutcomeAndNoSurfaceOnError ==
    last.called
        => /\ Cardinality(Outcomes) = 1
           /\ last.fig.shown
                  => /\ ~Unparseable /\ ~NegativeRate /\ ~NegativeTime /\ ~InvertedTimes
                     /\ program = HT => ~FLt(round2(InflationPercent), Zero)
           /\ last.title # "" => last.fig = NoFigure

\* The generic dialog: every entry converted and validated, the grid not built.
C10_Witness ==
    /\ last.called /\ last.title = "Error" /\ last.fig = NoFigure
    /\ ~Unparseable /\ ~NegativeRate /\ ~NegativeTime /\ ~InvertedTimes

====
